---- MODULE Spec2Model ----
(***************************************************************************)
(* track-work: a work-time tracker that keeps its sessions in a CSV file.  *)
(* The model follows src/main.rs: the storage file is the raw text that    *)
(* write() produces and read() parses, a session is a Tracker record, and  *)
(* each command (now, stop, info, live) is one action over the file.       *)
(***************************************************************************)
EXTENDS Integers, Sequences, FiniteSets, TLC

VARIABLES
    file,       \* the storage file: Absent, or File(its text, a sequence of tokens)
    pre,        \* the storage file as it was before the last command
    op,         \* the last command and its outcome
    livePc,     \* position of the live command: "idle", "running", "stopped"
    start_time, \* live's local start_time (NoTime while live is not running)
    liveObj,    \* the objective given to live
    sigs,       \* interrupts delivered to ctrl_c_events and not yet received
    entry,      \* the storage file as it was when live was entered
    stops,      \* the calls of stop the live loop has made
    clock,      \* the latest reading of now_local(), while no reading was
                \* earlier than the one before it
    inp,        \* input of the function under check (function specifications)
    out         \* its output

vars == <<file, pre, op, livePc, start_time, liveObj, sigs, entry, stops, clock,
          inp, out>>

(***************************************************************************)
(* Bounds of the model.                                                    *)
(***************************************************************************)
MaxSessions == 2    \* sessions a store may hold
MaxSigs == 2        \* interrupts pending at once

(***************************************************************************)
(* Timestamps.  An OffsetDateTime is an instant (sec: seconds since the    *)
(* epoch in UTC, ns: the sub-second part) and a UTC offset in seconds.     *)
(***************************************************************************)
\* the storage file: it exists or not (path.exists()), and has a text
Absent == [exists |-> FALSE, text |-> <<>>]
File(text) == [exists |-> TRUE, text |-> text]
None == [none |-> TRUE]
Some(x) == [none |-> FALSE, val |-> x]
IsNone(o) == o.none
IsSome(o) == ~o.none

MkTime(s, n, o) == [sec |-> s, ns |-> n, off |-> o]

\* local calendar day number (days since 1970-01-01 in the timestamp's offset)
LocalDay(t) == (t.sec + t.off) \div 86400
LocalSecOfDay(t) == (t.sec + t.off) % 86400

\* proleptic Gregorian calendar: day number -> (year, month, day).  The
\* steps: the 400-year era and the day of the era, the year of the era, the
\* day of the year (counted from March 1st), the month (counted from March).
CivilYoe(doe) == (doe - doe \div 1460 + doe \div 36524 - doe \div 146096) \div 365
CivilDoy(doe, yoe) == doe - (365 * yoe + yoe \div 4 - yoe \div 100)
CivilMp(doy) == (5 * doy + 2) \div 153
CivilYmd(era, yoe, doy, mp) ==
    [y |-> yoe + era * 400 + (IF mp >= 10 THEN 1 ELSE 0),
     m |-> IF mp < 10 THEN mp + 3 ELSE mp - 9,
     d |-> doy - (153 * mp + 2) \div 5 + 1]
CivilOfDoy(era, yoe, doy) == CivilYmd(era, yoe, doy, CivilMp(doy))
CivilOfYoe(era, doe, yoe) == CivilOfDoy(era, yoe, CivilDoy(doe, yoe))
CivilOfDoe(era, doe) == CivilOfYoe(era, doe, CivilYoe(doe))
CivilFromDays(z) == CivilOfDoe((z + 719468) \div 146097, (z + 719468) % 146097)

\* (year, month, day) -> day number; y is the year that starts in March
DaysOfYoe(era, yoe, doy) ==
    era * 146097 + yoe * 365 + yoe \div 4 - yoe \div 100 + doy - 719468
DaysOfMarchYear(y, mp, d) ==
    DaysOfYoe(y \div 400, y % 400, (153 * mp + 2) \div 5 + d - 1)
DaysFromCivil(y, m, d) ==
    DaysOfMarchYear(IF m <= 2 THEN y - 1 ELSE y, IF m > 2 THEN m - 3 ELSE m + 9, d)

Year(t) == CivilFromDays(LocalDay(t)).y
Month(t) == CivilFromDays(LocalDay(t)).m
DateOf(t) == CivilFromDays(LocalDay(t))

\* time::Duration: whole seconds and a sub-second part, 0 <= ns < 10^9
ZeroDuration == [s |-> 0, ns |-> 0]
\* a - b for two OffsetDateTimes (a difference of instants)
Sub(a, b) ==
    IF a.ns >= b.ns THEN [s |-> a.sec - b.sec, ns |-> a.ns - b.ns]
    ELSE [s |-> a.sec - b.sec - 1, ns |-> a.ns - b.ns + 1000000000]
\* Duration + Duration
Add(x, y) ==
    [s |-> x.s + y.s + (x.ns + y.ns) \div 1000000000,
     ns |-> (x.ns + y.ns) % 1000000000]

(***************************************************************************)
(* Text.  The file and every CSV field are sequences of tokens.  A token is *)
(* one of the characters special to CSV (comma, double quote, newline), a  *)
(* word (a run of characters that are not special), or one timestamp       *)
(* printed with "%F %T %z": its digits are kept as the fields date, time   *)
(* of day, offset sign, hours and minutes, and none of its characters is   *)
(* special to CSV.                                                         *)
(***************************************************************************)
COMMA == ","
QUOTE == "\""
NL == "\n"
Ch(c) == [k |-> "ch", c |-> c, v |-> <<>>]
Tok(v) == [k |-> "ts", c |-> "", v |-> v]
Str(cs) == IF cs = <<>> THEN <<>> ELSE [i \in 1..Len(cs) |-> Ch(cs[i])]

\* entry.start.format("%F %T %z"): the local date and time and the offset as
\* sign, hours and minutes; the sub-second part is not printed
FormatFields(c, sd, sign, ao) ==
    <<Tok(<<c.y, c.m, c.d, sd \div 3600, (sd % 3600) \div 60, sd % 60,
            sign, ao \div 3600, (ao % 3600) \div 60>>)>>
Format(t) ==
    FormatFields(DateOf(t), LocalSecOfDay(t), IF t.off < 0 THEN -1 ELSE 1,
                 IF t.off < 0 THEN -t.off ELSE t.off)

\* OffsetDateTime::parse(s, "%F %T %z"): Some(time), or None for text that
\* is not a timestamp in this format
ParseFields(v, o) ==
    MkTime(DaysFromCivil(v[1], v[2], v[3]) * 86400 + v[4] * 3600 + v[5] * 60 + v[6] - o,
           0, o)
Parse(s) ==
    IF Len(s) = 1 /\ s[1].k = "ts"
    THEN Some(ParseFields(s[1].v, s[1].v[7] * (s[1].v[8] * 3600 + s[1].v[9] * 60)))
    ELSE None

(***************************************************************************)
(* CSV, as the csv crate writes and reads it with its default settings:    *)
(* comma delimiter, double-quote quoting with doubled quotes, "\n" record  *)
(* terminator, fields quoted only when necessary, records of equal length. *)
(***************************************************************************)
IsCh(t, c) == t.k = "ch" /\ t.c = c
NeedsQuote(f) == \E i \in 1..Len(f) : IsCh(f[i], COMMA) \/ IsCh(f[i], QUOTE) \/ IsCh(f[i], NL)

RECURSIVE DoubleQuotes(_)
DoubleQuotes(f) ==
    IF f = <<>> THEN <<>>
    ELSE (IF IsCh(Head(f), QUOTE) THEN <<Ch(QUOTE), Ch(QUOTE)>> ELSE <<Head(f)>>)
         \o DoubleQuotes(Tail(f))

\* write_field without the quoting
WriteField_unquoted(f) == f

\* Writer::write_field
WriteField(f) ==
    IF NeedsQuote(f) THEN <<Ch(QUOTE)>> \o DoubleQuotes(f) \o <<Ch(QUOTE)>> ELSE f

\* Writer::write_record of three fields
WriteRecord(a, b, c) ==
    WriteField(a) \o <<Ch(COMMA)>> \o WriteField(b) \o <<Ch(COMMA)>> \o WriteField(c)
    \o <<Ch(NL)>>

\* the reader's view of a token: "comma", "quote", "nl" or "other"
Class(t) ==
    IF t.k # "ch" THEN "other"
    ELSE IF t.c = COMMA THEN "comma"
    ELSE IF t.c = QUOTE THEN "quote"
    ELSE IF t.c = NL THEN "nl"
    ELSE "other"

\* Reader::records: the records of a text, the header row included.  st is
\* the reader's state ("StartRecord", "StartField", "InField", "InQuoted",
\* or "AfterQuote": a quote was read inside a quoted field), fld the field
\* and rec the record being read, cl the class of the token text[i].
RECURSIVE Records(_, _, _, _, _, _)
Step(text, i, st, fld, rec, recs, cl) ==
    IF st = "InQuoted"
    THEN IF cl = "quote" THEN Records(text, i + 1, "AfterQuote", fld, rec, recs)
         ELSE Records(text, i + 1, "InQuoted", Append(fld, text[i]), rec, recs)
    ELSE IF cl = "comma"
    THEN Records(text, i + 1, "StartField", <<>>, Append(rec, fld), recs)
    ELSE IF cl = "nl"
    THEN IF st = "StartRecord"
         THEN Records(text, i + 1, "StartRecord", <<>>, <<>>, recs)
         ELSE Records(text, i + 1, "StartRecord", <<>>, <<>>,
                      Append(recs, Append(rec, fld)))
    ELSE IF cl = "quote" /\ st \in {"StartRecord", "StartField"}
    THEN Records(text, i + 1, "InQuoted", <<>>, rec, recs)
    ELSE IF cl = "quote" /\ st = "AfterQuote"
    THEN Records(text, i + 1, "InQuoted", Append(fld, text[i]), rec, recs)
    ELSE Records(text, i + 1, "InField", Append(fld, text[i]), rec, recs)

Records(text, i, st, fld, rec, recs) ==
    IF i > Len(text)
    THEN IF st = "StartRecord" THEN recs ELSE Append(recs, Append(rec, fld))
    ELSE Step(text, i, st, fld, rec, recs, Class(text[i]))

ReadRecords(text) == Records(text, 1, "StartRecord", <<>>, <<>>, <<>>)

(***************************************************************************)
(* Tracker and the record store.                                           *)
(***************************************************************************)
Tracker(s, e, o) == [start |-> s, end |-> e, objective |-> o]

\* impl From<StringRecord> for Tracker: Some(tracker), or None where the
\* conversion panics ("Could not parse start!")
\* the conversion with unwrap_or instead of expect for the start
TrackerOf_lenient(start, end, objective) ==
    Some(Tracker(IF IsNone(start) THEN MkTime(0, 0, 0) ELSE start.val, end, objective))

TrackerOf(start, end, objective) ==
    IF IsNone(start) THEN None ELSE Some(Tracker(start.val, end, objective))
TrackerFrom(rec) ==
    TrackerOf(Parse(rec[1]),
              IF Len(rec) >= 2 THEN Parse(rec[2]) ELSE None,
              IF Len(rec) >= 3 THEN rec[3] ELSE <<>>)

\* the rows Reader::records yields as Ok: those with as many fields as the
\* header row (the others are Err, which filter_map(|d| d.ok()) drops)
RowsLike(recs) ==
    IF recs = <<>> THEN <<>>
    ELSE SelectSeq(Tail(recs), LAMBDA r : Len(r) = Len(recs[1]))
OkRows(text) == RowsLike(ReadRecords(text))

\* .map(Tracker::from).collect(): [res |-> "ok", data |-> the Trackers], or
\* res = "panic"
Collect(conv) ==
    IF \E i \in 1..Len(conv) : IsNone(conv[i])
    THEN [res |-> "panic", data |-> <<>>]
    ELSE [res |-> "ok",
          data |-> IF conv = <<>> THEN <<>> ELSE [i \in 1..Len(conv) |-> conv[i].val]]
MapTrackerFrom(rows) ==
    IF rows = <<>> THEN <<>> ELSE [i \in 1..Len(rows) |-> TrackerFrom(rows[i])]

\* read
read(f) ==
    IF ~f.exists THEN [res |-> "ok", data |-> <<>>]
    ELSE Collect(MapTrackerFrom(OkRows(f.text)))

\* writer.write_record(&["Start", "End", "Objective"])
Header == WriteRecord(Str(<<"Start">>), Str(<<"End">>), Str(<<"Objective">>))

RECURSIVE WriteRows(_)
WriteRows(data) ==
    IF data = <<>> THEN <<>>
    ELSE WriteRecord(Format(Head(data).start),
                     IF IsSome(Head(data).end) THEN Format(Head(data).end.val) ELSE <<>>,
                     Head(data).objective)
         \o WriteRows(Tail(data))

\* write: the file after truncating (or creating) and rewriting it
write(data) == File(Header \o WriteRows(data))

(***************************************************************************)
(* The session engine.  Each operator returns the command's outcome: res   *)
(* is "ok", "err" (an Err the command returns, with its message) or        *)
(* "panic", and file is the storage file the command leaves behind.        *)
(***************************************************************************)
Last(seq) == seq[Len(seq)]
Outcome(r, m, f) == [res |-> r, msg |-> m, file |-> f]

\* Tracker::start
TrackerStart(objective, now) == Tracker(now, None, objective)

\* start without its check of the last entry
start_unchecked(r, f, objective, now) ==
    IF r.res = "panic" THEN Outcome("panic", "Could not parse start!", f)
    ELSE Outcome("ok", "", write(Append(r.data, TrackerStart(objective, now))))

\* start that pushes and writes before it checks the last entry
start_writes_first(r, f, objective, now) ==
    IF r.res = "panic" THEN Outcome("panic", "Could not parse start!", f)
    ELSE IF r.data # <<>> /\ IsNone(Last(r.data).end)
    THEN Outcome("err", "Last entry has no end",
                 write(Append(r.data, TrackerStart(objective, now))))
    ELSE Outcome("ok", "", write(Append(r.data, TrackerStart(objective, now))))

\* start that replaces the store by the new session
start_truncating(r, f, objective, now) ==
    IF r.res = "panic" THEN Outcome("panic", "Could not parse start!", f)
    ELSE IF r.data # <<>> /\ IsNone(Last(r.data).end)
    THEN Outcome("err", "Last entry has no end", f)
    ELSE Outcome("ok", "", write(<<TrackerStart(objective, now)>>))

\* start that inserts the new session before the others
start_prepends(r, f, objective, now) ==
    IF r.res = "panic" THEN Outcome("panic", "Could not parse start!", f)
    ELSE IF r.data # <<>> /\ IsNone(Last(r.data).end)
    THEN Outcome("err", "Last entry has no end", f)
    ELSE Outcome("ok", "", write(<<TrackerStart(objective, now)>> \o r.data))

\* start, from the result r of its read(path) on
start_read(r, f, objective, now) ==
    IF r.res = "panic" THEN Outcome("panic", "Could not parse start!", f)
    ELSE IF r.data # <<>> /\ IsNone(Last(r.data).end)
    THEN Outcome("err", "Last entry has no end", f)
    ELSE Outcome("ok", "", write(Append(r.data, TrackerStart(objective, now))))

\* start: now is the reading of OffsetDateTime::now_local() in Tracker::start
start(f, objective, now) == start_read(read(f), f, objective, now)

\* stop that sets the end of the last entry whether or not it has one
stop_unchecked(r, f, objective, now) ==
    LET n == Len(r.data)
    IN IF r.res = "panic" THEN Outcome("panic", "Could not parse start!", f)
       ELSE IF n = 0 THEN Outcome("ok", "", write(r.data))
       ELSE Outcome("ok", "",
                    write([r.data EXCEPT ![n] = Tracker(@.start, Some(now), objective)]))

\* stop that keeps the recorded objective when it is given an empty one
stop_keeps_objective(r, f, objective, now) ==
    LET n == Len(r.data)
    IN IF r.res = "panic" THEN Outcome("panic", "Could not parse start!", f)
       ELSE IF n = 0 THEN Outcome("ok", "", write(r.data))
       ELSE IF IsSome(r.data[n].end)
       THEN Outcome("err", "Last entry already finished", f)
       ELSE Outcome("ok", "",
                    write([r.data EXCEPT ![n] =
                             Tracker(@.start, Some(now),
                                     IF objective = <<>> THEN @.objective ELSE objective)]))

\* stop that assigns the objective to every entry, not to the last one only
stop_labels_all(r, f, objective, now) ==
    IF r.res = "panic" THEN Outcome("panic", "Could not parse start!", f)
    ELSE IF r.data = <<>> THEN Outcome("ok", "", write(r.data))
    ELSE IF IsSome(Last(r.data).end)
    THEN Outcome("err", "Last entry already finished", f)
    ELSE Outcome("ok", "",
                 write([i \in 1..Len(r.data) |->
                          Tracker(r.data[i].start,
                                  IF i = Len(r.data) THEN Some(now) ELSE r.data[i].end,
                                  objective)]))

\* stop, from the result r of its read(path) on
stop_read(r, f, objective, now) ==
    IF r.res = "panic" THEN Outcome("panic", "Could not parse start!", f)
    ELSE IF r.data = <<>> THEN Outcome("ok", "", write(r.data))
    ELSE IF IsSome(Last(r.data).end)
    THEN Outcome("err", "Last entry already finished", f)
    ELSE Outcome("ok", "",
                 write([r.data EXCEPT ![Len(r.data)] =
                          Tracker(@.start, Some(now), objective)]))

\* stop: now is the reading of OffsetDateTime::now_local() at line 202
stop(f, objective, now) == stop_read(read(f), f, objective, now)

(***************************************************************************)
(* The report engine.                                                      *)
(***************************************************************************)
\* get_month_data: current.month().checked_sub(delta), or on underflow
\* 12 - (delta - current.month()) with one more year of overflow
SubMonth(cm, d) == IF cm >= d THEN cm - d ELSE 12 - (d - cm)
SubOverflow(cm, d, overflow) == IF cm >= d THEN overflow ELSE overflow + 1
MonthIs(data, month, year) ==
    SelectSeq(data, LAMBDA m : Month(m.start) = month /\ Year(m.start) = year)
\* get_month_data: delta is a u8, current the reading of now_local()
get_month_data(data, delta, current) ==
    MonthIs(data, SubMonth(Month(current), delta % 12),
            Year(current) - SubOverflow(Month(current), delta % 12, delta \div 12))

\* (end or now) - start of entry i; nows[i] is the reading of now_local()
\* made for entry i when it has no end
Elapsed(data, nows, i) ==
    Sub(IF IsSome(data[i].end) THEN data[i].end.val ELSE nows[i], data[i].start)

\* the entry assigned (=) instead of added to (+=)
AddEntry_assigned(map, date, d) ==
    [x \in DOMAIN map \cup {date} |-> IF x = date THEN d ELSE map[x]]

\* *map.entry(date).or_insert_with(|| Duration::new(0, 0)) += d
AddEntry(map, date, d) ==
    [x \in DOMAIN map \cup {date} |->
       IF x = date THEN Add(IF date \in DOMAIN map THEN map[date] ELSE ZeroDuration, d)
       ELSE map[x]]

\* compress: the HashMap built by the loop over entries 1..i, as a function
\* from dates to durations
RECURSIVE CompressMap(_, _, _)
CompressMap(data, nows, i) ==
    IF i = 0 THEN [x \in {} |-> ZeroDuration]
    ELSE AddEntry(CompressMap(data, nows, i - 1), DateOf(data[i].start),
                  Elapsed(data, nows, i))

\* map.into_iter(): the (date, duration) pairs, in no specified order
IntoIter(map) == {<<d, map[d]>> : d \in DOMAIN map}

\* compress
compress(data, nows) == IntoIter(CompressMap(data, nows, Len(data)))

\* Iterator::fold(Duration::new(0, 0), |acc, e| acc + e) over a sequence
RECURSIVE FoldSeq(_, _)
FoldSeq(durs, i) == IF i = 0 THEN ZeroDuration ELSE Add(FoldSeq(durs, i - 1), durs[i])

\* the same fold over the map's pairs (addition commutes: any order will do)
RECURSIVE FoldPairs(_)
FoldPairs(pairs) ==
    IF pairs = {} THEN ZeroDuration
    ELSE Add(FoldPairs(pairs \ {CHOOSE q \in pairs : TRUE}),
             (CHOOSE q \in pairs : TRUE)[2])

\* Rust's integer division and remainder, which truncate toward zero
TDiv(a, b) == IF a >= 0 THEN a \div b ELSE -((-a) \div b)
TRem(a, b) == a - b * TDiv(a, b)
\* Duration::whole_seconds
WholeSeconds(d) == IF d.s < 0 /\ d.ns > 0 THEN d.s + 1 ELSE d.s
\* "{:02}:{:02}" of whole_hours() and whole_minutes() % 60
HoursMinutesOf(ws) == <<TDiv(ws, 3600), TRem(TDiv(ws, 60), 60)>>
HoursMinutes(d) == HoursMinutesOf(WholeSeconds(d))

MonthScope(delta) == [kind |-> "month", delta |-> delta]
AllScope == [kind |-> "all", delta |-> 0]

\* what info prints: the lines (without their text layout) and the total,
\* as a Duration and as printed
Report(uncompressed, lines, total) ==
    [res |-> "ok", uncompressed |-> uncompressed, lines |-> lines,
     total |-> total, printed |-> HoursMinutes(total)]

\* info, from the entries in scope on
ReportCompressed(pairs) == Report(FALSE, pairs, FoldPairs(pairs))
\* the uncompressed branch with unwrap_or(e.start): a session with no end
\* counts nothing
ReportEntries_closed_only(entries, uncompressed, nows) ==
    IF uncompressed
    THEN Report(TRUE, entries,
                FoldSeq([i \in 1..Len(entries) |->
                           IF IsSome(entries[i].end) THEN Elapsed(entries, nows, i)
                           ELSE ZeroDuration],
                        Len(entries)))
    ELSE ReportCompressed(compress(entries, nows))

ReportEntries(entries, uncompressed, nows) ==
    IF uncompressed
    THEN Report(TRUE, entries,
                FoldSeq([i \in 1..Len(entries) |-> Elapsed(entries, nows, i)],
                        Len(entries)))
    ELSE ReportCompressed(compress(entries, nows))

\* info, from the result r of its read(path) on
info_read(r, scope, uncompressed, current, nows) ==
    IF r.res = "panic" THEN [res |-> "panic"]
    ELSE ReportEntries(IF scope.kind = "month"
                       THEN get_month_data(r.data, scope.delta, current)
                       ELSE r.data,
                       uncompressed, nows)

\* info: current and nows are its clock readings
info(f, scope, uncompressed, current, nows) ==
    info_read(read(f), scope, uncompressed, current, nows)

(***************************************************************************)
(* The commands.  One action is one run of a command (for live: its entry, *)
(* one pass of its loop).  The file belongs to one process at a time, so   *)
(* no command starts while live is running.  An action binds r to the      *)
(* result of the command's read(path) and runs the rest of start, stop or  *)
(* info on it (start_read, stop_read, info_read).                          *)
(***************************************************************************)
\* the clock readings of the model: half a second into the last second of
\* January 2021 and the first instant of February, local time at UTC+1
BaseSec == DaysFromCivil(2021, 2, 1) * 86400 - 3600 - 1
Nows == {MkTime(BaseSec, 500000000, 3600), MkTime(BaseSec + 1, 0, 3600)}
Objectives == {<<>>, Str(<<"fix", COMMA, QUOTE, "bug", NL>>)}
Deltas == {0, 1}
Scopes == {MonthScope(d) : d \in Deltas} \cup {AllScope}

NoTime == MkTime(0, 0, 0)
NoOutput == [res |-> "none"]
\* the last command: cmd is the command line's command, fn the session
\* engine function it ran last (with objective obj and clock reading now)
Op(cmd, fn, obj, res, msg, now) ==
    [cmd |-> cmd, fn |-> fn, obj |-> obj, res |-> res, msg |-> msg, now |-> now]

Sessions == read(file).data
PreSessions == read(pre).data
IsOpen(data) == data # <<>> /\ IsNone(Last(data).end)
\* the readings of one report: the same reading for every entry
Readings(rnow) == [i \in 1..(MaxSessions + 1) |-> rnow]
\* the model's bound on the store: no append beyond MaxSessions
MayGrow(data) == Len(data) < MaxSessions

\* instants: a is before b
Before(a, b) == a.sec < b.sec \/ (a.sec = b.sec /\ a.ns < b.ns)
\* the clock before any reading, and once a reading was earlier than the
\* one before it
Steady(t) == [last |-> t, steady |-> TRUE]
Unsteady == [last |-> NoTime, steady |-> FALSE]
\* the clock c after the reading t of OffsetDateTime::now_local()
Reading(c, t) == IF c.steady /\ ~Before(t, c.last) THEN Steady(t) ELSE Unsteady

\* the end of start and stop with show set: the file is left as outcome o
\* has it and, unless o is an error, info(path, &None, false) reads it and
\* prints the report (rnow is the clock reading of the report, c the clock
\* after the readings start or stop has made)
Shown(o, cmd, fn, objective, now, c) ==
    IF o.res = "ok"
    THEN \E r \in {read(o.file)}, rnow \in Nows :
           \E rep \in {info_read(r, MonthScope(0), FALSE, rnow, Readings(rnow))} :
             /\ file' = o.file
             /\ op' = Op(cmd, fn, objective, rep.res, o.msg, now)
             /\ out' = rep
             /\ clock' = Reading(c, rnow)
    ELSE /\ file' = o.file
         /\ op' = Op(cmd, fn, objective, o.res, o.msg, now)
         /\ out' = NoOutput
         /\ clock' = c

Fresh == /\ livePc' = "idle"
         /\ start_time' = NoTime
         /\ liveObj' = <<>>
         /\ sigs' = 0
         /\ entry' = Absent
         /\ stops' = 0

Init ==
    /\ file \in {Absent, File(<<>>)}
    /\ pre = file
    /\ op = Op("none", "none", <<>>, "ok", "", NoTime)
    /\ livePc = "idle"
    /\ start_time = NoTime
    /\ liveObj = <<>>
    /\ sigs = 0
    /\ entry = Absent
    /\ stops = 0
    /\ clock = Steady(NoTime)
    /\ inp = <<>>
    /\ out = NoOutput

\* main: Command::Now => start(&opts.file, opts.objective, true)
Now(objective) ==
    /\ livePc # "running"
    /\ \E r \in {read(file)}, now \in Nows :
         \E o \in {start_read(r, file, objective, now)} :
           /\ o.res = "ok" => MayGrow(r.data)
           /\ Shown(o, "now", "start", objective, now,
                    IF o.res = "ok" THEN Reading(clock, now) ELSE clock)
    /\ pre' = file
    /\ Fresh
    /\ UNCHANGED inp

\* main: Command::Stop => stop(&opts.file, opts.objective, true)
Stop(objective) ==
    /\ livePc # "running"
    /\ \E r \in {read(file)}, now \in Nows :
         \E o \in {stop_read(r, file, objective, now)} :
           Shown(o, "stop", "stop", objective, now,
                 IF o.res = "ok" /\ r.data # <<>> THEN Reading(clock, now) ELSE clock)
    /\ pre' = file
    /\ Fresh
    /\ UNCHANGED inp

\* info that writes the entries back after reading them
Info_saving(scope, uncompressed) ==
    /\ livePc # "running"
    /\ \E r \in {read(file)}, rnow \in Nows :
         \E rep \in {info_read(r, scope, uncompressed, rnow, Readings(rnow))} :
           /\ op' = Op("info", "info", <<>>, rep.res, "", rnow)
           /\ out' = rep
           /\ clock' = IF rep.res = "ok" THEN Reading(clock, rnow) ELSE clock
           /\ file' = IF r.res = "ok" THEN write(r.data) ELSE file
    /\ pre' = file
    /\ Fresh
    /\ UNCHANGED inp

\* main: Command::Info => info(&opts.file, &info_level, uncompressed)
Info(scope, uncompressed) ==
    /\ livePc # "running"
    /\ \E r \in {read(file)}, rnow \in Nows :
         \E rep \in {info_read(r, scope, uncompressed, rnow, Readings(rnow))} :
           /\ op' = Op("info", "info", <<>>, rep.res, "", rnow)
           /\ out' = rep
           /\ clock' = IF rep.res = "ok" THEN Reading(clock, rnow) ELSE clock
    /\ pre' = file
    /\ Fresh
    /\ UNCHANGED <<file, inp>>

\* the match on data.last() without its guard entry.end.is_none()
Adopts_any(data) == data # <<>>

\* live: data.last() matches Some(entry) if entry.end.is_none()
Adopts(data) == data # <<>> /\ IsNone(Last(data).end)

\* live up to its loop: adopt the open session or start one, then install
\* the interrupt handler and the timer
LiveEnter(objective) ==
    /\ livePc # "running"
    /\ \E r \in {read(file)} :
          IF r.res = "panic"
          THEN /\ op' = Op("live", "none", objective, "panic", "Could not parse start!", NoTime)
               /\ Fresh
               /\ UNCHANGED <<file, clock>>
          ELSE IF Adopts(r.data)
          THEN /\ op' = Op("live", "none", objective, "ok", "", NoTime)
               /\ livePc' = "running"
               /\ start_time' = Last(r.data).start
               /\ liveObj' = objective
               /\ sigs' = 0
               /\ entry' = file
               /\ stops' = 0
               /\ UNCHANGED <<file, clock>>
          ELSE \E now2 \in Nows :
                 \E o \in {start(file, <<>>, now2)}, now1 \in Nows :
                    /\ o.res = "ok" => MayGrow(r.data)
                    /\ file' = o.file
                    /\ op' = Op("live", "start", <<>>, o.res, o.msg, now2)
                    /\ livePc' = IF o.res = "ok" THEN "running" ELSE "idle"
                    /\ start_time' = IF o.res = "ok" THEN now1 ELSE NoTime
                    /\ liveObj' = IF o.res = "ok" THEN objective ELSE <<>>
                    /\ sigs' = 0
                    /\ entry' = IF o.res = "ok" THEN file ELSE Absent
                    /\ stops' = 0
                    /\ clock' = IF o.res = "ok"
                                THEN Reading(Reading(clock, now1), now2)
                                ELSE Reading(clock, now1)
    /\ pre' = file
    /\ out' = NoOutput
    /\ UNCHANGED inp

\* the handler ctrl_channel installs: an interrupt is sent to the channel
Interrupt ==
    /\ livePc = "running"
    /\ sigs < MaxSigs
    /\ sigs' = sigs + 1
    /\ UNCHANGED <<file, pre, op, livePc, start_time, liveObj, entry, stops, clock,
                   inp, out>>

\* "Duration: {:02}:{:02}:{:02}" of whole_hours(), whole_minutes() % 60 and
\* whole_seconds() % 60
Displayed(ws) ==
    [res |-> "duration",
     printed |-> <<TDiv(ws, 3600), TRem(TDiv(ws, 60), 60), TRem(ws, 60)>>]

\* a tick branch that also saves the time worked so far as the end of the
\* running session
LiveTick_saving ==
    /\ livePc = "running"
    /\ \E now \in Nows :
         /\ out' = Displayed(WholeSeconds(Sub(now, start_time)))
         /\ clock' = Reading(clock, now)
         /\ file' = stop(file, liveObj, now).file
    /\ UNCHANGED <<pre, op, livePc, start_time, liveObj, sigs, entry, stops, inp>>

\* select!: recv(ticks): the elapsed time since start_time is displayed
LiveTick ==
    /\ livePc = "running"
    /\ \E now \in Nows :
         /\ out' = Displayed(WholeSeconds(Sub(now, start_time)))
         /\ clock' = Reading(clock, now)
    /\ UNCHANGED <<file, pre, op, livePc, start_time, liveObj, sigs, entry, stops, inp>>

\* the interrupt branch: stop(path, objective, true), after which the loop
\* is at pc
Interrupted(objective, pc) ==
    /\ \E r \in {read(file)}, now \in Nows :
         \E o \in {stop_read(r, file, objective, now)} :
           Shown(o, "live", "stop", objective, now,
                 IF o.res = "ok" /\ r.data # <<>> THEN Reading(clock, now) ELSE clock)
    /\ pre' = file
    /\ livePc' = pc
    /\ sigs' = sigs - 1
    /\ stops' = stops + 1
    /\ UNCHANGED <<start_time, liveObj, entry, inp>>

\* the interrupt branch calling stop with an empty objective, as live calls
\* start
LiveInterrupt_no_objective ==
    livePc = "running" /\ sigs > 0 /\ Interrupted(<<>>, "stopped")

\* the interrupt branch that only prints: the interrupt is received and the
\* loop goes on
LiveInterrupt_drains ==
    /\ livePc = "running"
    /\ sigs > 0
    /\ sigs' = sigs - 1
    /\ UNCHANGED <<file, pre, op, livePc, start_time, liveObj, entry, stops, clock,
                   inp, out>>

\* the interrupt branch without its break (and with stop's Err dropped)
LiveInterrupt_continues ==
    livePc = "running" /\ sigs > 0 /\ Interrupted(liveObj, "running")

\* select!: recv(ctrl_c_events): stop(path, objective, true), then break (or
\* return its Err)
LiveInterrupt ==
    livePc = "running" /\ sigs > 0 /\ Interrupted(liveObj, "stopped")

Next ==
    \/ \E objective \in Objectives : Now(objective)
    \/ \E objective \in Objectives : Stop(objective)
    \/ \E scope \in Scopes, uncompressed \in BOOLEAN : Info(scope, uncompressed)
    \/ \E objective \in Objectives : LiveEnter(objective)
    \/ Interrupt
    \/ LiveTick
    \/ LiveInterrupt

Spec == Init /\ [][Next]_vars

(***************************************************************************)
(* Properties of the session engine, checked under Spec.                   *)
(***************************************************************************)
\* two timestamps that agree at the precision of the file: the same whole
\* second and the same offset
SameSecond(a, b) == a.sec = b.sec /\ a.off = b.off
OpenIndexes(data) == {i \in 1..Len(data) : IsNone(data[i].end)}
Closed(data) == data # <<>> /\ IsSome(Last(data).end)
\* the first n entries of a and b are the same
SamePrefix(a, b, n) == \A i \in 1..n : a[i] = b[i]

\* C1: in every reachable store at most one session has no end, and a
\* session with no end is the last record of the store.
OneOpenAndLast(r) ==
    /\ r.res = "ok"
    /\ Cardinality(OpenIndexes(r.data)) <= 1
    /\ \A i \in OpenIndexes(r.data) : i = Len(r.data)
C1_OneOpenAndLast == OneOpenAndLast(read(file))

\* a store of two sessions, the first closed and the last open
TwoWithLastOpen(data) == Len(data) >= 2 /\ IsOpen(data) /\ IsSome(data[1].end)
C1_Witness == TwoWithLastOpen(Sessions)

\* C2: start on a store whose last session is open returns the error "Last
\* entry has no end" and leaves the file as it was.
C2_StartOnOpenFails ==
    (op.fn = "start" /\ IsOpen(PreSessions))
        => (op.res = "err" /\ op.msg = "Last entry has no end" /\ file = pre)

C2_Witness == op.fn = "start" /\ op.res = "err" /\ file = pre /\ IsOpen(PreSessions)

\* C3: stop on an empty store (a file that is absent, empty or holds only
\* the header) returns an error and leaves the file as it was.
C3_StopOnEmptyFails ==
    (op.fn = "stop" /\ PreSessions = <<>>) => (op.res = "err" /\ file = pre)

\* C4: stop on a store whose last session is closed returns the error "Last
\* entry already finished" and leaves the file as it was.
C4_StopOnClosedFails ==
    (op.fn = "stop" /\ Closed(PreSessions))
        => (op.res = "err" /\ op.msg = "Last entry already finished" /\ file = pre)

C4_Witness == op.fn = "stop" /\ op.res = "err" /\ file = pre /\ Closed(PreSessions)

\* C9: a successful start appends exactly one session (start = the clock
\* reading, which the file keeps to the whole second, no end, the given
\* objective); the sessions stored before it are unchanged and keep their
\* positions.
StartAppended(before, after) ==
    /\ ~IsOpen(before)
    /\ file = write(Append(before, Tracker(op.now, None, op.obj)))
    /\ Len(after) = Len(before) + 1
    /\ SamePrefix(after, before, Len(before))
    /\ SameSecond(Last(after).start, op.now)
    /\ IsNone(Last(after).end)
    /\ Last(after).objective = op.obj
C9_StartAppendsOne ==
    (op.fn = "start" /\ op.res = "ok") => StartAppended(PreSessions, Sessions)

\* a start, with a clock reading that has a sub-second part, on a store that
\* already holds a closed session
C9_Witness ==
    /\ op.fn = "start" /\ op.res = "ok"
    /\ op.now.ns # 0
    /\ op.obj # <<>>
    /\ Closed(PreSessions)
    /\ Len(Sessions) = 2

\* C10: a successful stop on a store whose last session is open sets that
\* session's end to the clock reading (kept to the whole second) and its
\* objective to the one given to stop; its start, the other sessions and the
\* number of sessions are unchanged.
StopClosed(before, after) ==
    IsOpen(before)
        => /\ Len(after) = Len(before)
           /\ SamePrefix(after, before, Len(before) - 1)
           /\ Last(after).start = Last(before).start
           /\ IsSome(Last(after).end)
           /\ SameSecond(Last(after).end.val, op.now)
           /\ Last(after).objective = op.obj
C10_StopClosesLast ==
    (op.fn = "stop" /\ op.res = "ok") => StopClosed(PreSessions, Sessions)

\* a stop with an empty objective closing the second session of the store,
\* which start had recorded with an objective
StopEmptied(before, after) ==
    /\ IsOpen(before)
    /\ Len(before) >= 2
    /\ Last(before).objective # <<>>
    /\ Closed(after)
C10_Witness ==
    /\ op.fn = "stop" /\ op.res = "ok"
    /\ op.obj = <<>>
    /\ StopEmptied(PreSessions, Sessions)

(***************************************************************************)
(* write and read as functions of a store: a sequence of sessions is drawn *)
(* (inp), saved to the absent file and loaded back (out).                  *)
(***************************************************************************)
MaxClosed == 2

Grow(P, S) == P \cup {Append(p, x) : p \in P, x \in S}
RECURSIVE SeqsUpTo(_, _)
\* the sequences of at most n elements of S
SeqsUpTo(S, n) == IF n = 0 THEN {<<>>} ELSE Grow(SeqsUpTo(S, n - 1), S)

\* clock readings with and without a sub-second part, at offsets +01:00,
\* -09:30 and +00:00: 2021-01-31 23:59:59.5, 2020-02-29 12:00:00.999999999
\* and 1999-12-31 23:59:59
Leap == MkTime(DaysFromCivil(2020, 2, 29) * 86400 + 43200 + 34200, 999999999, -34200)
Eve == MkTime(DaysFromCivil(1999, 12, 31) * 86400 + 86399, 0, 0)
Spans == {<<MkTime(BaseSec, 500000000, 3600), MkTime(BaseSec + 1, 0, 3600)>>,
          <<Leap, MkTime(BaseSec, 500000000, 3600)>>,
          <<Eve, Leap>>}
\* objectives: empty, with every character the writer quotes, starting with
\* a quote, and one that reads as a timestamp
Texts == {<<>>,
          Str(<<"fix", COMMA, QUOTE, "bug", NL>>),
          Str(<<QUOTE, "a", QUOTE, COMMA>>),
          Format(Eve)}
ClosedSessions == {Tracker(sp[1], Some(sp[2]), o) : sp \in Spans, o \in Texts}
OpenSessions == {Tracker(t, None, o) : t \in {Leap, MkTime(BaseSec + 1, 0, 3600)},
                                       o \in {<<>>, Str(<<"fix", COMMA, QUOTE, "bug", NL>>)}}
\* any number of closed sessions, optionally followed by one open session
Stores ==
    Grow(SeqsUpTo(ClosedSessions, MaxClosed), OpenSessions)

\* a run of one function: nothing is running and no command was given
Apart ==
    /\ pre = Absent
    /\ op = Op("none", "none", <<>>, "ok", "", NoTime)
    /\ livePc = "idle"
    /\ start_time = NoTime
    /\ liveObj = <<>>
    /\ sigs = 0
    /\ entry = Absent
    /\ stops = 0
    /\ clock = Steady(NoTime)
Applied(fn, res) ==
    /\ op' = Op("none", fn, <<>>, res, "", NoTime)
    /\ UNCHANGED <<pre, livePc, start_time, liveObj, sigs, entry, stops, clock, inp>>

InitRoundTrip ==
    /\ Apart
    /\ file = Absent
    /\ inp \in Stores
    /\ out = NoOutput

\* write(path, &data)
Save ==
    /\ op.fn = "none"
    /\ file' = write(inp)
    /\ out' = NoOutput
    /\ Applied("write", "ok")

\* read(path)
Load ==
    /\ file.exists
    /\ op.fn # "read"
    /\ \E r \in {read(file)} :
         /\ out' = r
         /\ Applied("read", r.res)
    /\ UNCHANGED file

NextRoundTrip == Save \/ Load
SpecRoundTrip == InitRoundTrip /\ [][NextRoundTrip]_vars

SameEnd(a, b) ==
    IF IsNone(a) THEN IsNone(b) ELSE IsSome(b) /\ SameSecond(a.val, b.val)
SameTriples(data, loaded) ==
    /\ Len(loaded) = Len(data)
    /\ \A i \in 1..Len(data) :
         /\ SameSecond(loaded[i].start, data[i].start)
         /\ SameEnd(data[i].end, loaded[i].end)
         /\ loaded[i].objective = data[i].objective

\* C5: for every sequence of well-formed sessions, write followed by read
\* returns the same (start, end, objective) triples in the same order:
\* timestamps equal to the whole second, an absent end absent again, the
\* objective text unchanged.
C5_RoundTrip ==
    op.fn = "read" => (out.res = "ok" /\ SameTriples(inp, out.data))

\* a store of two closed sessions and an open one is read back; the
\* objectives hold commas, quotes and line breaks, and a start loses its
\* sub-second part
C5_Witness ==
    /\ op.fn = "read" /\ out.res = "ok"
    /\ Len(inp) = 3 /\ IsOpen(inp)
    /\ \A i \in 1..3 : NeedsQuote(inp[i].objective)
    /\ inp[1].start.ns # 0
    /\ out.data[1].start.ns = 0
    /\ inp[1].start.off < 0

(***************************************************************************)
(* read as a function of the stored text: rows are drawn (inp, each row    *)
(* its fields), the file holds the header and the rows, and is loaded.     *)
(***************************************************************************)
MaxRows == 3

RECURSIVE WriteFields(_)
\* one row of the file: its fields, comma separated, and the terminator
WriteFields(fields) ==
    IF fields = <<>> THEN <<Ch(NL)>>
    ELSE IF Len(fields) = 1 THEN WriteField(fields[1]) \o <<Ch(NL)>>
    ELSE WriteField(fields[1]) \o <<Ch(COMMA)>> \o WriteFields(Tail(fields))
RECURSIVE WriteAll(_)
WriteAll(rows) ==
    IF rows = <<>> THEN <<>> ELSE WriteFields(Head(rows)) \o WriteAll(Tail(rows))

\* rows: a closed and an open session, rows of one, two and four fields,
\* rows whose start is a word or empty, a row whose end is a word
StoredRows ==
    {<<Format(Eve), Format(Leap), Str(<<"fix", COMMA, "bug">>)>>,
     <<Format(Leap), <<>>, <<>>>>,
     <<Str(<<"soon">>)>>,
     <<Format(Eve), Format(Leap)>>,
     <<Format(Eve), Format(Leap), Str(<<"fix">>), Str(<<"bug">>)>>,
     <<Str(<<"soon">>), Format(Leap), Str(<<"fix">>)>>,
     <<<<>>, <<>>, Str(<<"bug">>)>>,
     <<Format(Eve), Str(<<"later">>), Str(<<"fix">>)>>}

InitLoad ==
    /\ Apart
    /\ inp \in SeqsUpTo(StoredRows, MaxRows)
    /\ file = File(Header \o WriteAll(inp))
    /\ out = NoOutput

NextLoad == Load
SpecLoad == InitLoad /\ [][NextLoad]_vars

\* a well-formed row: three fields, a start that parses, an end that is
\* empty or parses
WellFormed(row) ==
    /\ Len(row) = 3
    /\ IsSome(Parse(row[1]))
    /\ row[2] = <<>> \/ IsSome(Parse(row[2]))
HasThree(row) == Len(row) = 3
SessionOf(row) == Tracker(Parse(row[1]).val, Parse(row[2]), row[3])
SessionsOf(rows) ==
    IF rows = <<>> THEN <<>> ELSE [i \in 1..Len(rows) |-> SessionOf(rows[i])]

\* C6, as claimed: whatever mix of well-formed and malformed rows the file
\* holds, read completes without error or abort and returns exactly the
\* well-formed rows in file order.
C6_SkipsMalformed ==
    op.fn = "read"
        => (out.res = "ok" /\ out.data = SessionsOf(SelectSeq(inp, WellFormed)))

\* C6, amended: read skips the rows whose field count differs from the
\* header's and no others.  If one of the remaining rows has a start that
\* does not parse, read does not return (panic "Could not parse start!").
\* Otherwise it returns one session per remaining row, in file order, and a
\* row whose end is not empty and does not parse is returned with no end.
LoadedFrom(kept, r) ==
    IF \E i \in 1..Len(kept) : IsNone(Parse(kept[i][1]))
    THEN r.res = "panic"
    ELSE r.res = "ok" /\ r.data = SessionsOf(kept)
C6_SkipsWrongCount ==
    op.fn = "read" => LoadedFrom(SelectSeq(inp, HasThree), out)

\* a file of three rows is read: a row of two fields, which is skipped, a
\* closed session and a row whose end is a word, which is returned as an
\* open session
C6_Witness ==
    /\ op.fn = "read" /\ out.res = "ok"
    /\ Len(inp) = 3 /\ Len(out.data) = 2
    /\ Len(inp[1]) = 2
    /\ WellFormed(inp[2])
    /\ HasThree(inp[3]) /\ ~WellFormed(inp[3])
    /\ IsSome(out.data[1].end) /\ IsNone(out.data[2].end)

(***************************************************************************)
(* get_month_data as a function of the sessions, the delta and the clock   *)
(* reading: inp holds the three, out the sessions it keeps.                *)
(***************************************************************************)
\* the largest delta: delta is a u8
MaxDelta == 255

\* months are counted from year 0: month m of year y is y * 12 + m - 1
MonthIndex(t) == Year(t) * 12 + Month(t) - 1
\* the first and the last second of month k, in local time at offset +01:00
MonthStart(k) == MkTime(DaysFromCivil(k \div 12, (k % 12) + 1, 1) * 86400 - 3600, 0, 3600)
MonthEnd(k) == MkTime(MonthStart(k + 1).sec - 1, 0, 3600)
Moment(t) == Tracker(t, Some(t), <<>>)
\* sessions at both ends of month k, at the end of the month before, at the
\* start of the month after, and in the same month one year before and after
Around(k) ==
    <<Moment(MonthStart(k - 12)), Moment(MonthEnd(k - 1)), Moment(MonthStart(k)),
      Moment(MonthEnd(k)), Moment(MonthStart(k + 1)), Moment(MonthEnd(k + 12))>>
\* the clock reading: the 15th of month m of 2021
MidMonth(m) == MkTime(DaysFromCivil(2021, m, 15) * 86400, 0, 3600)

InitMonth ==
    /\ Apart
    /\ file = Absent
    /\ \E m \in 1..12, delta \in 0..MaxDelta :
         inp = [current |-> MidMonth(m), delta |-> delta,
                data |-> Around(MonthIndex(MidMonth(m)) - delta)]
    /\ out = NoOutput

\* get_month_data(data, delta)
MonthFilter ==
    /\ op.fn = "none"
    /\ out' = [res |-> "sessions",
               data |-> get_month_data(inp.data, inp.delta, inp.current)]
    /\ Applied("get_month_data", "ok")
    /\ UNCHANGED file

NextMonth == MonthFilter
SpecMonth == InitMonth /\ [][NextMonth]_vars

InMonth(data, k) == SelectSeq(data, LAMBDA s : MonthIndex(s.start) = k)

\* C7: for every current month of year Y and every delta in 0..255,
\* get_month_data keeps exactly the sessions whose start lies in the
\* calendar month delta months before the current one, across year
\* boundaries (delta = 13 in January of Y: December of Y - 2).
C7_MonthBefore ==
    op.fn = "get_month_data"
        => out.data = InMonth(inp.data, MonthIndex(inp.current) - inp.delta)

(***************************************************************************)
(* compress as a function of the sessions and of the clock readings made   *)
(* for the sessions without an end: inp holds both, out the pairs.         *)
(***************************************************************************)
MaxEntries == 3

\* starts on 2021-01-31 (at +01:00 and at +00:00) and on 2021-02-01
Starts == {MkTime(BaseSec, 500000000, 3600),
           MkTime(BaseSec + 1, 0, 3600),
           MkTime(BaseSec + 1, 600000000, 0)}
Ends == {None, Some(MkTime(BaseSec + 1, 0, 3600)), Some(MkTime(BaseSec + 3600, 600000000, 0))}
Entries == {Tracker(t, e, <<>>) : t \in Starts, e \in Ends}
\* the readings of now_local(), one per entry: all the same, or later ones
\* for later entries
ReadingsFor(n) ==
    {[i \in 1..n |-> MkTime(BaseSec + 7200, 500000000, 3600)],
     [i \in 1..n |-> MkTime(BaseSec + 7200 + i, 600000000, 3600)]}

InitCompress ==
    /\ Apart
    /\ file = Absent
    /\ \E data \in SeqsUpTo(Entries, MaxEntries), nows \in ReadingsFor(MaxEntries) :
         inp = [data |-> data, nows |-> nows]
    /\ out = NoOutput

\* compress(data)
Compress ==
    /\ op.fn = "none"
    /\ out' = [res |-> "pairs", pairs |-> compress(inp.data, inp.nows)]
    /\ Applied("compress", "ok")
    /\ UNCHANGED file

NextCompress == Compress
SpecCompress == InitCompress /\ [][NextCompress]_vars

\* a time and a duration in tenths of a second (the readings and the
\* session times of this specification are whole tenths), the time counted
\* from BaseSec
Tenths(t) == (t.sec - BaseSec) * 10 + t.ns \div 100000000
DurationTenths(d) == d.s * 10 + d.ns \div 100000000
EndOrNow(data, nows, i) == IF IsSome(data[i].end) THEN data[i].end.val ELSE nows[i]
RECURSIVE TenthsOn(_, _, _, _)
\* the sum, over the sessions 1..i that start on date, of (end or now) - start
TenthsOn(data, nows, date, i) ==
    IF i = 0 THEN 0
    ELSE TenthsOn(data, nows, date, i - 1)
         + (IF DateOf(data[i].start) = date
            THEN Tenths(EndOrNow(data, nows, i)) - Tenths(data[i].start)
            ELSE 0)
StartDates(data) == {DateOf(data[i].start) : i \in 1..Len(data)}

\* C8: compress yields exactly one (date, duration) pair per distinct start
\* date of its input, and the duration of a pair is the sum, over the
\* sessions that start on its date, of (end, or the clock reading made for
\* the session when it has no end) minus start.
OnePairPerDate(data, nows, pairs) ==
    /\ {p[1] : p \in pairs} = StartDates(data)
    /\ Cardinality(pairs) = Cardinality(StartDates(data))
    /\ \A p \in pairs :
         /\ p[2].ns \in 0..999999999
         /\ p[2].ns % 100000000 = 0
         /\ DurationTenths(p[2]) = TenthsOn(data, nows, p[1], Len(data))
C8_OnePairPerDate ==
    op.fn = "compress" => OnePairPerDate(inp.data, inp.nows, out.pairs)

\* three sessions that start on the same date, one of them with no end and
\* two at different offsets, give one pair
C8_Witness ==
    /\ op.fn = "compress"
    /\ Len(inp.data) = 3
    /\ Cardinality(StartDates(inp.data)) = 1
    /\ Cardinality(out.pairs) = 1
    /\ IsNone(inp.data[2].end)
    /\ inp.data[1].start.off # inp.data[3].start.off
    /\ \A p \in out.pairs : p[2].s > 0

(***************************************************************************)
(* Properties of live, checked under Spec.                                 *)
(***************************************************************************)
EntrySessions == read(entry).data

\* C11: when the loop of live waits, the store has exactly one open session,
\* in last position.  If the last session was open when live was entered,
\* the file is as it was and that session's start is the loop's start_time;
\* otherwise one open session with an empty objective was appended and the
\* sessions before it are unchanged.
LiveEntered(before, after) ==
    /\ after # <<>>
    /\ OpenIndexes(after) = {Len(after)}
    /\ IF before # <<>> /\ IsNone(Last(before).end)
       THEN /\ file = entry
            /\ start_time = Last(before).start
       ELSE /\ Len(after) = Len(before) + 1
            /\ SamePrefix(after, before, Len(before))
            /\ Last(after).objective = <<>>
C11_LiveEntry ==
    (livePc = "running" /\ stops = 0) => LiveEntered(EntrySessions, Sessions)

\* live, entered on a store whose last session is closed, waits in its loop
\* with a second session, which is open
StartedSecond(before, after) == Closed(before) /\ Len(after) = 2 /\ IsOpen(after)
C11_Witness ==
    /\ livePc = "running"
    /\ StartedSecond(EntrySessions, Sessions)

\* C12: the loop of live calls stop at most once; once it has taken the
\* interrupt branch the loop is left (livePc is "stopped", whatever stop
\* returned and however many interrupts are still pending) and no tick is
\* processed any more: no further duration is displayed.
StopsOnce ==
    /\ stops' <= 1
    /\ stops' > 0 => livePc' = "stopped"
    /\ stops > 0 => ~(out' # out /\ out'.res = "duration")
C12_StopsOnce == [][StopsOnce]_vars

\* the loop was left by its one call of stop while a second interrupt was
\* pending
C12_Witness == stops = 1 /\ livePc = "stopped" /\ sigs > 0 /\ op.fn = "stop"

\* the step in which the loop takes its interrupt branch: it is possible
\* exactly when the loop runs and an interrupt is pending, and it is the
\* step LiveInterrupt
Leave == livePc = "running" /\ sigs > 0 /\ livePc' = "stopped"

\* select! takes one of the operations that are ready, so the interrupt
\* branch, which stays ready while an interrupt is pending, is taken in the
\* end even when ticks are ready too: weak fairness of that step
SpecLive == Init /\ [][Next]_vars /\ WF_livePc(Leave)

\* C13: if an interrupt is pending while the loop of live is running, the
\* loop is eventually left by its call of stop, with the session closed,
\* whatever ticks become ready in between.
C13_InterruptStops ==
    (livePc = "running" /\ sigs > 0)
        ~> (livePc = "stopped" /\ stops = 1 /\ op.res = "ok" /\ Closed(Sessions))

\* live has closed the session it started itself
C13_Witness ==
    /\ livePc = "stopped" /\ stops = 1
    /\ op.cmd = "live" /\ op.res = "ok"
    /\ Closed(Sessions)
    /\ ~IsOpen(EntrySessions)

\* C14: when live was entered on a store whose last session was open and
\* has handled an interrupt, the store has as many sessions as at entry and
\* none of them is open; its last session has the start it had at entry,
\* the clock reading of the interrupt handling as its end (kept to the whole
\* second) and the objective given to live; the other sessions are as they
\* were.
AdoptedClosed(before, after) ==
    /\ op.res = "ok"
    /\ Len(after) = Len(before)
    /\ OpenIndexes(after) = {}
    /\ SamePrefix(after, before, Len(before) - 1)
    /\ Last(after).start = Last(before).start
    /\ SameSecond(Last(after).end.val, op.now)
    /\ Last(after).objective = liveObj
C14_AdoptedThenInterrupted ==
    (livePc = "stopped" /\ stops = 1 /\ IsOpen(EntrySessions))
        => AdoptedClosed(EntrySessions, Sessions)

\* live, given an objective, has closed the second session of the store,
\* which now had started with no objective, at a clock reading with a
\* sub-second part
AdoptedSecond(before, after) ==
    /\ Len(before) = 2 /\ IsOpen(before)
    /\ Last(before).objective = <<>>
    /\ Last(after).objective # <<>>
C14_Witness ==
    /\ livePc = "stopped" /\ stops = 1
    /\ op.now.ns # 0
    /\ AdoptedSecond(EntrySessions, Sessions)

\* C15: in every step of now, stop, live and info no session is removed or
\* moved; a closed session stays exactly as it is; an open session either
\* stays as it is or is closed, keeping its start (its end and objective
\* change in that step only).  A step that changes the file leaves in pre
\* the file it found, so the sessions before and after the step are those
\* of pre and file.
Kept(before, after) ==
    /\ Len(after) >= Len(before)
    /\ \A i \in 1..Len(before) :
         IF IsSome(before[i].end)
         THEN after[i] = before[i]
         ELSE \/ after[i] = before[i]
              \/ after[i].start = before[i].start /\ IsSome(after[i].end)
C15_SessionsKept ==
    /\ [](Kept(PreSessions, Sessions))
    /\ [][file' # file => pre' = file]_vars

\* stop has closed the second session of the store, changing its objective,
\* and the first session, closed before, is as it was
SecondClosed(before, after) ==
    /\ Len(before) = 2 /\ Len(after) = 2
    /\ IsSome(before[1].end) /\ after[1] = before[1]
    /\ before[1].objective # <<>>
    /\ IsNone(before[2].end) /\ IsSome(after[2].end)
    /\ after[2].objective # before[2].objective
C15_Witness ==
    /\ op.fn = "stop" /\ op.res = "ok"
    /\ op.obj = <<>>
    /\ SecondClosed(PreSessions, Sessions)

\* C16: as long as no reading of the clock was earlier than the one before
\* it, the sessions of the store are in chronological order and do not
\* overlap: no session ends before it starts, and each session starts no
\* earlier than the session stored before it started and ended.
InOrder(data) ==
    /\ \A i \in 1..Len(data) :
         IsSome(data[i].end) => ~Before(data[i].end.val, data[i].start)
    /\ \A i \in 2..Len(data) :
         /\ ~Before(data[i].start, data[i - 1].start)
         /\ IsSome(data[i - 1].end)
         /\ ~Before(data[i].start, data[i - 1].end.val)
C16_Chronological == clock.steady => InOrder(Sessions)

\* two sessions under a clock that never went back: the first took a
\* second, the second started in the second the first ended in
C16_Witness ==
    /\ clock.steady
    /\ Len(Sessions) = 2
    /\ Before(Sessions[1].start, Sessions[1].end.val)
    /\ Sessions[2].start = Sessions[1].end.val

\* C17: while the loop of live is running, the start_time from which it
\* computes the displayed duration is the start of the open session in the
\* store (to the whole second, the precision of the file), whether live has
\* adopted that session or started it itself.
StartTimeOf(data) == data # <<>> /\ SameSecond(start_time, Last(data).start)
C17_StartTimeIsStored == livePc = "running" => StartTimeOf(Sessions)

(***************************************************************************)
(* info as a function of the sessions, the scope and the clock: inp holds  *)
(* the three, out the compressed and the uncompressed report made with the *)
(* same reading of the clock.                                              *)
(***************************************************************************)
\* readings on 2021-02-01 at +01:00, after every start and end of Entries
LaterReadings == {MkTime(BaseSec + 7200, 500000000, 3600),
                  MkTime(BaseSec + 7201, 0, 3600)}
Loaded(data) == [res |-> "ok", data |-> data]

InitReport ==
    /\ Apart
    /\ file = Absent
    /\ \E data \in SeqsUpTo(Entries, MaxEntries), now \in LaterReadings,
          scope \in Scopes :
         inp = [data |-> data, now |-> now, scope |-> scope]
    /\ out = NoOutput

\* info, compressed and uncompressed, every reading of the clock being
\* inp.now
BothReports ==
    /\ op.fn = "none"
    /\ \E nows \in {[i \in 1..(MaxEntries + 1) |-> inp.now]} :
         out' = [res |-> "reports",
                 compressed |-> info_read(Loaded(inp.data), inp.scope, FALSE,
                                          inp.now, nows),
                 uncompressed |-> info_read(Loaded(inp.data), inp.scope, TRUE,
                                            inp.now, nows)]
    /\ Applied("info", "ok")
    /\ UNCHANGED file

NextReport == BothReports
SpecReport == InitReport /\ [][NextReport]_vars

RECURSIVE PairsTenths(_)
\* the sum of the durations of the pairs, in tenths of a second
PairsTenths(pairs) ==
    IF pairs = {} THEN 0
    ELSE DurationTenths((CHOOSE q \in pairs : TRUE)[2])
         + PairsTenths(pairs \ {CHOOSE q \in pairs : TRUE})
OneDate(entries) ==
    /\ entries # <<>>
    /\ \A i \in 1..Len(entries) : DateOf(entries[i].start) = DateOf(entries[1].start)

\* C18: for the same sessions, scope and reading of the clock, the total of
\* the compressed report is the sum of the durations of its date lines and
\* is the total of the uncompressed report (and both print the same
\* hours and minutes); when the sessions in scope all start on one date the
\* compressed report has one date line, whose duration is the total.
TotalsAgree(c, u) ==
    /\ c.total = u.total
    /\ c.printed = u.printed
    /\ DurationTenths(c.total) = PairsTenths(c.lines)
    /\ OneDate(u.lines) => /\ Cardinality(c.lines) = 1
                           /\ \A p \in c.lines : p[2] = c.total
C18_TotalsAgree ==
    op.fn = "info" /\ out.res = "reports" => TotalsAgree(out.compressed, out.uncompressed)

\* reports of the month before over three sessions, one of another month;
\* the two in scope start on one date, one of them has no end, and the
\* total is not zero
C18_Witness ==
    /\ op.fn = "info" /\ out.res = "reports"
    /\ inp.scope = MonthScope(1)
    /\ Len(inp.data) = 3
    /\ Len(out.uncompressed.lines) = 2
    /\ IsNone(out.uncompressed.lines[1].end)
    /\ Cardinality(out.compressed.lines) = 1
    /\ out.compressed.total.s > 0

(***************************************************************************)
(* Frame properties, checked under Spec.                                   *)
(***************************************************************************)
\* C19: a step of the running loop of live that does not handle an
\* interrupt (a tick, or the delivery of an interrupt) leaves the file as it
\* is, its last session open, and the loop running: the loop is left only
\* by the step that handles an interrupt.
TickFrame ==
    (livePc = "running" /\ stops' = stops)
        => /\ file' = file
           /\ IsOpen(read(file').data)
           /\ livePc' = "running"
C19_TicksKeepStore == [][TickFrame]_vars

\* the loop has displayed a duration and the session live started is still
\* open
C19_Witness ==
    /\ livePc = "running"
    /\ out.res = "duration"
    /\ file # entry
    /\ IsOpen(Sessions)

\* C20: info, for every scope and detail level, leaves the file as it was:
\* the same text, hence the same records, and no file where there was none.
C20_InfoKeepsStore ==
    op.cmd = "info" => (file = pre /\ Sessions = PreSessions)

\* info has made the uncompressed report over the empty sequence, the file
\* being absent before and after
C20_Witness ==
    /\ op.cmd = "info" /\ op.res = "ok"
    /\ out.res = "ok" /\ out.uncompressed
    /\ out.lines = <<>>
    /\ ~pre.exists /\ ~file.exists

====
